---- MODULE Spec2Model ----
(***************************************************************************)
(* Model of TimelineDataIngester (scripts2/ingest_authoritative_events.py):*)
(* the validators, the icon fallback resolver, connect and disconnect, the *)
(* per-event ingestion with its database transaction, the batch runner,    *)
(* and the JSON and CSV file loaders with their handlers.                  *)
(***************************************************************************)
EXTENDS Integers, Sequences, FiniteSets, TLC

(***************************************************************************)
(* Bounds of the model.                                                    *)
(***************************************************************************)
\* Longest list of events handed to ingest_batch.
MaxBatch == 2

(***************************************************************************)
(* Python values.  Every value is a record [t, n, s]: its type, its number *)
(* (for int and float; floats are modelled at integral values only) and    *)
(* its text (for str).  "list" is a non-empty list met where a scalar is   *)
(* expected.                                                               *)
(***************************************************************************)
None == [t |-> "none", n |-> 0, s |-> ""]
PyInt(k) == [t |-> "int", n |-> k, s |-> ""]
PyFloat(k) == [t |-> "float", n |-> k, s |-> ""]
PyStr(x) == [t |-> "str", n |-> 0, s |-> x]
PyList == [t |-> "list", n |-> 0, s |-> ""]

\* bool(v): Python truthiness.
Truthy(v) ==
    CASE v.t = "none" -> FALSE
      [] v.t = "int" -> v.n /= 0
      [] v.t = "float" -> v.n /= 0
      [] v.t = "str" -> v.s /= ""
      [] OTHER -> TRUE

\* The numeric strings of the model: the text int() accepts, and the text
\* only float() accepts.  Every other string of the model is not numeric.
IntLiterals == ("0" :> 0) @@ ("50" :> 50) @@ ("45" :> 45) @@ ("-5" :> -5)
               @@ ("101" :> 101) @@ ("200" :> 200)
FloatLiterals == IntLiterals @@ ("90.0" :> 90) @@ ("2.0" :> 2)

\* int(v): [ok, n]; ok is FALSE where Python raises TypeError or ValueError.
IntOf(v) ==
    CASE v.t = "int" -> [ok |-> TRUE, n |-> v.n]
      [] v.t = "float" -> [ok |-> TRUE, n |-> v.n]
      [] v.t = "str" -> IF v.s \in DOMAIN IntLiterals
                        THEN [ok |-> TRUE, n |-> IntLiterals[v.s]]
                        ELSE [ok |-> FALSE, n |-> 0]
      [] OTHER -> [ok |-> FALSE, n |-> 0]

\* The class of the exception int(v) raises where it raises: ValueError for
\* a text that is not an integer literal, TypeError for None or a list.
IntError(v) == IF v.t = "str" THEN "ValueError" ELSE "TypeError"

\* float(v): [ok, n]; ok is FALSE where Python raises TypeError or ValueError.
FloatOf(v) ==
    CASE v.t = "int" -> [ok |-> TRUE, n |-> v.n]
      [] v.t = "float" -> [ok |-> TRUE, n |-> v.n]
      [] v.t = "str" -> IF v.s \in DOMAIN FloatLiterals
                        THEN [ok |-> TRUE, n |-> FloatLiterals[v.s]]
                        ELSE [ok |-> FALSE, n |-> 0]
      [] OTHER -> [ok |-> FALSE, n |-> 0]

\* str(v) as it appears inside an f-string, as a sequence of text parts.
StrOf(v) ==
    CASE v.t = "none" -> <<"None">>
      [] v.t = "int" -> <<ToString(v.n)>>
      [] v.t = "float" -> <<ToString(v.n), ".0">>
      [] v.t = "str" -> <<v.s>>
      [] OTHER -> <<"[1]">>

(***************************************************************************)
(* Dictionaries.  A dict is [isdict, f] with f a function from its keys to *)
(* values; an event carries its 'sources' entry apart, as                  *)
(* [present, islist, items].  A non-dict has isdict = FALSE.               *)
(***************************************************************************)
Has(d, k) == k \in DOMAIN d.f
Get(d, k, default) == IF k \in DOMAIN d.f THEN d.f[k] ELSE default
Pop(d, k) == [d EXCEPT !.f = [x \in (DOMAIN d.f) \ {k} |-> d.f[x]]]
With(d, k, v) == [d EXCEPT !.f = (k :> v) @@ d.f]
NoSources == [present |-> FALSE, islist |-> FALSE, items |-> <<>>]
SourceList(items) == [present |-> TRUE, islist |-> TRUE, items |-> items]
WithSources(e, srcs) == [e EXCEPT !.sources = srcs]

(***************************************************************************)
(* Class constants.                                                        *)
(***************************************************************************)
VALID_SOURCE_TYPES ==
    {"scientific_paper", "book", "article", "database", "expert_consensus",
     "wikipedia", "wikidata", "other"}

PRECISION_LEVELS ==
    {"nanosecond", "microsecond", "millisecond", "second", "minute", "hour",
     "day", "week", "month", "year", "decade", "century", "thousand_years",
     "million_years", "billion_years"}

\* A membership test that lets every string through.
InStrListAnyString(v, list) == v.t = "str"

\* x in LIST, for a list of strings.
InStrList(v, list) == v.t = "str" /\ v.s \in list

(***************************************************************************)
(* validate_source(source, context): [ok, msg]; msg is a sequence of text  *)
(* parts whose concatenation is the Python message.                        *)
(***************************************************************************)
Ok == [ok |-> TRUE, msg |-> <<>>]
Fail(msg) == [ok |-> FALSE, msg |-> msg]

validate_source(source, context) ==
    IF ~source.isdict THEN Fail(context \o <<" must be a dictionary">>)
    ELSE IF ~Has(source, "url") /\ ~Has(source, "title")
    THEN Fail(context \o <<": must have 'url' or 'title'">>)
    ELSE IF Has(source, "source_type")
            /\ ~InStrList(source.f["source_type"], VALID_SOURCE_TYPES)
    THEN Fail(context \o <<": invalid source_type: ">>
              \o StrOf(source.f["source_type"]))
    ELSE IF Has(source, "credibility_score")
            /\ ~IntOf(source.f["credibility_score"]).ok
    THEN Fail(context \o <<": credibility_score must be numeric">>)
    ELSE IF Has(source, "credibility_score")
            /\ (IntOf(source.f["credibility_score"]).n < 0
                \/ IntOf(source.f["credibility_score"]).n > 100)
    THEN Fail(context \o <<": credibility_score must be 0-100">>)
    ELSE Ok

\* The context validate_event passes for element i (0-based): f"sources[{i}]".
SourceContext(i) == <<"sources[", ToString(i), "]">>

\* A loop that goes on after a failing element and reports the last one.
RECURSIVE ValidateSourcesNoBreak(_, _)
ValidateSourcesNoBreak(items, i) ==
    IF i >= Len(items) THEN [ok |-> TRUE, msg |-> <<>>, examined |-> i]
    ELSE LET r == validate_source(items[i + 1], SourceContext(i))
             rest == ValidateSourcesNoBreak(items, i + 1)
         IN IF ~rest.ok THEN rest
            ELSE IF ~r.ok THEN [ok |-> FALSE, msg |-> r.msg, examined |-> Len(items)]
            ELSE rest

\* The loop of validate_event over event['sources'], from 0-based index i:
\* [ok, msg, examined], examined being the number of elements handed to
\* validate_source before the loop ended.
RECURSIVE ValidateSources(_, _)
ValidateSources(items, i) ==
    IF i >= Len(items) THEN [ok |-> TRUE, msg |-> <<>>, examined |-> i]
    ELSE LET r == validate_source(items[i + 1], SourceContext(i))
         IN IF ~r.ok THEN [ok |-> FALSE, msg |-> r.msg, examined |-> i + 1]
            ELSE ValidateSources(items, i + 1)

\* A title check that forgets the empty title.
TitleMissingKeyOnly(event) == ~Has(event, "title")

\* 'title' not in event or not event['title']
TitleMissing(event) == ~Has(event, "title") \/ ~Truthy(event.f["title"])

(***************************************************************************)
(* validate_event(event): [ok, msg].  The checks of lines 194-264 are      *)
(* grouped as the code groups them under its comments; each group gives    *)
(* the result of its first failing check, or Ok.                           *)
(***************************************************************************)
\* Lines 198-220: "Required fields" and the type of category.
CheckRequired(event) ==
    IF TitleMissing(event)
    THEN Fail(<<"Missing required field: title">>)
    ELSE IF ~Has(event, "unix_seconds")
    THEN Fail(<<"Missing required field: unix_seconds">>)
    ELSE IF ~Has(event, "precision_level")
    THEN Fail(<<"Missing required field: precision_level">>)
    ELSE IF ~Has(event, "latitude") \/ event.f["latitude"] = None
    THEN Fail(<<"Missing required field: latitude (all events must have geo point)">>)
    ELSE IF ~Has(event, "longitude") \/ event.f["longitude"] = None
    THEN Fail(<<"Missing required field: longitude (all events must have geo point)">>)
    ELSE IF ~Has(event, "category")
    THEN Fail(<<"Missing required field: category (must be a leaf category)">>)
    ELSE IF event.f["category"].t /= "str"
    THEN Fail(<<"category must be a string">>)
    ELSE Ok

\* A range test that also turns the two ends of the range away.
OutOfRangeExclusive(x, lo, hi) == x <= lo \/ x >= hi

\* lat < -90 or lat > 90 (line 225), lon < -180 or lon > 180 (line 232)
OutOfRange(x, lo, hi) == x < lo \/ x > hi

\* Lines 222-235: "Validate coordinates".
CheckCoordinates(event) ==
    IF ~FloatOf(event.f["latitude"]).ok
    THEN Fail(<<"latitude must be numeric">>)
    ELSE IF OutOfRange(FloatOf(event.f["latitude"]).n, -90, 90)
    THEN Fail(<<"latitude must be between -90 and 90">>)
    ELSE IF ~FloatOf(event.f["longitude"]).ok
    THEN Fail(<<"longitude must be numeric">>)
    ELSE IF OutOfRange(FloatOf(event.f["longitude"]).n, -180, 180)
    THEN Fail(<<"longitude must be between -180 and 180">>)
    ELSE Ok

\* Lines 237-239: "Validate precision_level".
CheckPrecision(event) ==
    IF ~InStrList(event.f["precision_level"], PRECISION_LEVELS)
    THEN Fail(<<"Invalid precision_level: ">> \o StrOf(event.f["precision_level"]))
    ELSE Ok

\* Lines 241-245: "Validate unix_seconds is numeric".
CheckTimestamp(event) ==
    IF ~IntOf(event.f["unix_seconds"]).ok
    THEN Fail(<<"unix_seconds must be numeric">>)
    ELSE Ok

\* Lines 247-254: "Validate importance_score if provided".
CheckImportance(event) ==
    IF Has(event, "importance_score") /\ ~IntOf(event.f["importance_score"]).ok
    THEN Fail(<<"importance_score must be numeric">>)
    ELSE IF Has(event, "importance_score")
            /\ OutOfRange(IntOf(event.f["importance_score"]).n, 0, 100)
    THEN Fail(<<"importance_score must be between 0 and 100">>)
    ELSE Ok

\* Lines 256-264: "Validate sources if provided".
CheckSources(event) ==
    IF event.sources.present /\ ~event.sources.islist
    THEN Fail(<<"sources must be a list">>)
    ELSE IF event.sources.present
    THEN LET r == ValidateSources(event.sources.items, 0)
         IN [ok |-> r.ok, msg |-> r.msg]
    ELSE Ok

\* A validator that looks at the precision level before the coordinates.
validate_event_precision_first(event) ==
    IF ~event.isdict THEN Fail(<<"Event must be a dictionary">>)
    ELSE IF ~CheckRequired(event).ok THEN CheckRequired(event)
    ELSE IF ~CheckPrecision(event).ok THEN CheckPrecision(event)
    ELSE IF ~CheckCoordinates(event).ok THEN CheckCoordinates(event)
    ELSE IF ~CheckTimestamp(event).ok THEN CheckTimestamp(event)
    ELSE IF ~CheckImportance(event).ok THEN CheckImportance(event)
    ELSE CheckSources(event)

validate_event(event) ==
    IF ~event.isdict THEN Fail(<<"Event must be a dictionary">>)
    ELSE IF ~CheckRequired(event).ok THEN CheckRequired(event)
    ELSE IF ~CheckCoordinates(event).ok THEN CheckCoordinates(event)
    ELSE IF ~CheckPrecision(event).ok THEN CheckPrecision(event)
    ELSE IF ~CheckTimestamp(event).ok THEN CheckTimestamp(event)
    ELSE IF ~CheckImportance(event).ok THEN CheckImportance(event)
    ELSE CheckSources(event)

(***************************************************************************)
(* _get_fallback_image and the data it reads.                              *)
(***************************************************************************)
\* category.split('.'): the dotted identifiers of the model and their
\* segments; every other string of the model has no '.'.
DotSplit == ("history.ancient" :> <<"history", "ancient">>)
            @@ ("art.painting" :> <<"art", "painting">>)
            @@ ("science.physics" :> <<"science", "physics">>)
            @@ ("science.physics.quantum" :> <<"science", "physics", "quantum">>)

\* The icon maps _load_category_icons can produce: one entry per *.svg file
\* of the icon directory, or none when the directory does not exist.
IconsLoaded == ("science" :> "/images/categories/science.svg")
               @@ ("history" :> "/images/categories/history.svg")
               @@ ("science.physics" :> "/images/categories/science.physics.svg")
IconsMissing == [c \in {} |-> ""]
IconMaps == {IconsLoaded, IconsMissing}

\* The rows of the database table `categories` (their ids).
CategoryTable == {"science", "history.ancient", "art", "art.painting",
                  "science.physics.quantum"}

VARIABLES
    dry_run,          \* self.dry_run
    conn,             \* self.conn: "None", "open" or "closed"
    exception,        \* the exception that left the run: <<class, text>>,
                      \* <<>> while none has
    category_icons,   \* self.category_icons
    stats,            \* self.stats
    committed,        \* rows of the database that are committed
    pending,          \* rows written by the open transaction of self.conn
    in_txn,           \* self.conn has a transaction open
    n_events,         \* len(events) of the ingest_batch call
    i,                \* elements of events taken by the loop of ingest_batch
    calls,            \* the elements handed to ingest_event_with_sources, in order
    event,            \* the dict handed to the current (or last) call
    loc,              \* local variables of the call in progress
    result,           \* what the last call returned
    at_call,          \* history: event, self.stats and result as they were when
                      \* the current (or last) call was made, and whether the
                      \* dict handed over is the one the call before was handed
    csv,              \* ingest_from_csv_file: the rows read and events_dict
    pc                \* where the run stands

vars == <<dry_run, conn, exception, category_icons, stats, committed, pending, in_txn, n_events,
          i, calls, event, loc, result, at_call, csv, pc>>

\* str(uuid.uuid4()): the value drawn by call number c of
\* ingest_event_with_sources at its site number k (0 the event identifier,
\* j the identifier of the j-th element of sources, j + 1 past the last
\* element the identifier of the location).  Each site runs at most once in
\* a call, so all values are distinct, as uuid4 values are.
Uuid(c, k) == [t |-> "uuid", n |-> c, s |-> ToString(k)]

\* A resolver that never retries with the parent segment.
ExactMatchOnly(category) ==
    IF ~Truthy(category) THEN None
    ELSE IF category.s \in DOMAIN category_icons
    THEN PyStr(category_icons[category.s])
    ELSE None

\* category.rsplit('.', 1)[0] for the dotted identifiers of the model.
ImmediateParent == ("history.ancient" :> "history") @@ ("art.painting" :> "art")
                   @@ ("science.physics" :> "science")
                   @@ ("science.physics.quantum" :> "science.physics")

\* A resolver that retries with the immediate parent.
ImmediateParentRetry(category) ==
    IF ~Truthy(category) THEN None
    ELSE IF category.s \in DOMAIN category_icons
    THEN PyStr(category_icons[category.s])
    ELSE IF category.s \in DOMAIN ImmediateParent
            /\ ImmediateParent[category.s] \in DOMAIN category_icons
    THEN PyStr(category_icons[ImmediateParent[category.s]])
    ELSE None

\* A resolver that asks for the parent segment before the exact match.
ParentFirst(category) ==
    IF ~Truthy(category) THEN None
    ELSE IF category.s \in DOMAIN DotSplit
            /\ DotSplit[category.s][1] \in DOMAIN category_icons
    THEN PyStr(category_icons[DotSplit[category.s][1]])
    ELSE IF category.s \in DOMAIN category_icons
    THEN PyStr(category_icons[category.s])
    ELSE None

_get_fallback_image(category) ==
    IF ~Truthy(category) THEN None
    ELSE IF category.s \in DOMAIN category_icons
    THEN PyStr(category_icons[category.s])
    ELSE IF category.s \in DOMAIN DotSplit
            /\ DotSplit[category.s][1] \in DOMAIN category_icons
    THEN PyStr(category_icons[DotSplit[category.s][1]])
    ELSE None

(***************************************************************************)
(* State of the database and of a call in progress.                        *)
(***************************************************************************)
NoRows == [events |-> {}, sources |-> {}, locations |-> {}]

NoEvent == [isdict |-> TRUE, f |-> [x \in {} |-> None], sources |-> NoSources]

NoLocals == [event_id |-> None, sources |-> <<>>, k |-> 0, category |-> None,
             latitude |-> None, longitude |-> None, location_name |-> None,
             event_data |-> [x \in {} |-> None], n_source_ids |-> 0]

NoResult == [success |-> FALSE, msg |-> <<>>, event_id |-> None]

\* self.stats as __init__ leaves it, lines 103-109.
NoStats == [events_created |-> 0, sources_created |-> 0, events_skipped |-> 0,
            image_urls_replaced |-> 0, errors |-> <<>>]

NoCall == [event |-> NoEvent, stats |-> NoStats, result |-> NoResult,
           same_dict |-> FALSE, db_errors |-> 0]

\* The result is the one the handler of psycopg2.Error returns (line 476).
DatabaseErrorResult(r) == Len(r.msg) = 2 /\ r.msg[1] = "Database error: "

\* History: the calls of the run so far that ended in the handler of
\* psycopg2.Error and returned its result.  at_call.db_errors counts those
\* before the current (or last) call; `result` is the result of that call
\* only once it has returned (while it runs, and when an exception left
\* it, `result` is still what the call before returned, already counted).
DatabaseErrorsSoFar ==
    at_call.db_errors
    + (IF pc \in {"batch", "returned"} /\ DatabaseErrorResult(result) THEN 1 ELSE 0)

\* No CSV file read: no row, and events_dict = {} (line 580).
NoCsv == [rows |-> <<>>, events |-> <<>>]

\* The value `return success, message, event_id` hands to ingest_batch.
Return(success, msg, event_id) ==
    [success |-> success, msg |-> msg, event_id |-> event_id]

\* self.stats['events_skipped'] += 1 (lines 319 and 340)
CountSkip(s) == [s EXCEPT !.events_skipped = @ + 1]

\* A call that does not look at self.dry_run.
ValidateWithoutDryRun ==
    /\ pc = "validate"
    /\ LET v == validate_event(event)
       IN IF ~v.ok
          THEN /\ stats' = [stats EXCEPT !.events_skipped = @ + 1]
               /\ result' = Return(FALSE, <<"Event validation failed: ">> \o v.msg, None)
               /\ pc' = "batch"
          ELSE /\ pc' = "prepare"
               /\ UNCHANGED <<stats, result>>
    /\ UNCHANGED <<dry_run, conn, exception, category_icons, csv, at_call, committed, pending, in_txn, n_events,
                   i, calls, event, loc>>

(***************************************************************************)
(* ingest_event_with_sources, lines 316-324: validation and dry run.       *)
(***************************************************************************)
Validate ==
    /\ pc = "validate"
    /\ LET v == validate_event(event)
       IN IF ~v.ok
          THEN /\ stats' = CountSkip(stats)
               /\ result' = Return(FALSE, <<"Event validation failed: ">> \o v.msg, None)
               /\ pc' = "batch"
          ELSE IF dry_run
          THEN /\ result' = Return(TRUE, <<"Dry run - not written to database">>,
                                   Uuid(Len(calls), 0))
               /\ pc' = "batch"
               /\ UNCHANGED stats
          ELSE /\ pc' = "prepare"
               /\ UNCHANGED <<stats, result>>
    /\ UNCHANGED <<dry_run, conn, exception, category_icons, csv, at_call, committed, pending, in_txn, n_events,
                   i, calls, event, loc>>

\* Lines 472-475, once self.conn.rollback() has returned: the skip is
\* counted and the message appended to stats['errors'].
RecordDatabaseError(s, what) ==
    [s EXCEPT !.events_skipped = @ + 1,
              !.errors = Append(@, <<"Database error: ", what>>)]

(***************************************************************************)
(* The handler of psycopg2.Error, lines 470-476, followed by the finally   *)
(* clause: a statement run on the cursor raised the error whose text is    *)
(* `what`.  self.conn.rollback() (line 471) is itself a call on the        *)
(* connection: when the connection is lost it raises too (psycopg2's       *)
(* InterfaceError), inside the handler, so lines 472-476 do not run and    *)
(* the exception leaves ingest_event_with_sources and ingest_batch with    *)
(* the transaction as it was.                                              *)
(***************************************************************************)
DatabaseError(what) ==
    \E rollback_raises \in BOOLEAN :
        IF rollback_raises
        THEN /\ exception' = <<"psycopg2.InterfaceError", what>>
             /\ in_txn' = TRUE
             /\ loc' = NoLocals
             /\ pc' = "raised"
             /\ UNCHANGED <<pending, stats, result>>
        ELSE /\ pending' = NoRows
             /\ in_txn' = FALSE
             /\ stats' = RecordDatabaseError(stats, what)
             /\ result' = Return(FALSE, <<"Database error: ", what>>, None)
             /\ loc' = NoLocals
             /\ pc' = "batch"
             /\ UNCHANGED exception

(***************************************************************************)
(* Line 327 raises: `cursor` is never bound, so `finally: cursor.close()`  *)
(* (line 478) raises UnboundLocalError, which replaces whatever the call   *)
(* was about to return or raise and leaves ingest_batch.                   *)
(*   - self.conn is None (connect() was not called, or it failed):         *)
(*     AttributeError, which the handler of psycopg2.Error does not take;  *)
(*     nothing is counted.                                                 *)
(*   - self.conn.cursor() raises psycopg2.Error: the handler runs first    *)
(*     (rollback, skip counted, message appended) unless its rollback()    *)
(*     raises as well.                                                     *)
(* The pops of lines 331-335 have not run: the event is as it was.         *)
(***************************************************************************)
CursorError ==
    /\ IF conn /= "open"
       THEN UNCHANGED <<pending, in_txn, stats>>
       ELSE \E rollback_raises \in BOOLEAN :
                IF rollback_raises
                THEN UNCHANGED <<pending, in_txn, stats>>
                ELSE /\ pending' = NoRows
                     /\ in_txn' = FALSE
                     /\ stats' = RecordDatabaseError(stats, "cursor")
    /\ exception' = <<"UnboundLocalError", "cursor">>
    /\ loc' = NoLocals
    /\ pc' = "raised"
    /\ UNCHANGED <<event, result>>

(***************************************************************************)
(* Lines 326-375: cursor, identifier, the pops, the category lookup, the   *)
(* image fallback and event_data.                                          *)
(***************************************************************************)
Popped(e) ==
    [isdict |-> TRUE,
     f |-> [x \in (DOMAIN e.f) \ {"category", "latitude", "longitude", "location_name"}
            |-> e.f[x]],
     sources |-> NoSources]

\* A lookup that takes every category for a registered one.
CategoryExistsUnchecked(category) == TRUE

\* Lines 338-339: SELECT id FROM categories WHERE id = %s; fetchone().
CategoryExists(category) == category.t = "str" /\ category.s \in CategoryTable

\* An image step that takes the placeholder without counting it.
ResolveImageNoCount(supplied, category) ==
    LET fallback == _get_fallback_image(category)
    IN IF Truthy(supplied) THEN [image_url |-> supplied, replaced |-> FALSE]
       ELSE IF Truthy(fallback) THEN [image_url |-> fallback, replaced |-> FALSE]
       ELSE [image_url |-> supplied, replaced |-> FALSE]

\* An image step that asks for the placeholder first.
ResolveImagePlaceholderFirst(supplied, category) ==
    LET fallback == _get_fallback_image(category)
    IN IF Truthy(fallback) THEN [image_url |-> fallback, replaced |-> TRUE]
       ELSE [image_url |-> supplied, replaced |-> FALSE]

\* Lines 343-356: the image of the row and whether image_urls_replaced
\* counts it.  A supplied image_url that is truthy is kept as it is;
\* _check_image_url is not called.
ResolveImage(supplied, category) ==
    LET fallback == _get_fallback_image(category)
    IN IF Truthy(supplied) THEN [image_url |-> supplied, replaced |-> FALSE]
       ELSE IF Truthy(fallback) THEN [image_url |-> fallback, replaced |-> TRUE]
       ELSE [image_url |-> supplied, replaced |-> FALSE]

Prepare ==
    /\ pc = "prepare"
    /\ LET event_id == Uuid(Len(calls), 0)
           sources == IF event.sources.present THEN event.sources.items ELSE <<>>
           category == Get(event, "category", None)
           latitude == Get(event, "latitude", None)
           longitude == Get(event, "longitude", None)
           location_name == Get(event, "location_name", None)
           ev == Popped(event)
           supplied == Get(ev, "image_url", None)
           image == ResolveImage(supplied, category)
           replaced == image.replaced
           image_url == image.image_url
           unix_nanos == IntOf(Get(ev, "unix_nanos", PyInt(0)))
           importance == IntOf(Get(ev, "importance_score", PyInt(50)))
           event_data == [id |-> event_id,
                          title |-> ev.f["title"],
                          unix_seconds |-> IntOf(ev.f["unix_seconds"]).n,
                          unix_nanos |-> unix_nanos.n,
                          precision_level |-> ev.f["precision_level"],
                          category |-> category,
                          image_url |-> image_url,
                          importance_score |-> importance.n]
       IN IF conn /= "open"
          THEN CursorError
          ELSE \E raises \in {"nothing", "cursor", "SELECT"} :
               IF raises = "cursor"
               THEN CursorError
               ELSE IF raises = "SELECT"
               THEN \* the SELECT raises psycopg2.Error
                    /\ event' = ev
                    /\ DatabaseError("SELECT categories")
               ELSE IF ~CategoryExists(category)
               THEN \* cursor.fetchone() is None: return with the transaction open
                    /\ event' = ev
                    /\ in_txn' = TRUE
                    /\ stats' = CountSkip(stats)
                    /\ result' = Return(FALSE, <<"Category '">> \o StrOf(category)
                                               \o <<"' not found in database">>, None)
                    /\ loc' = NoLocals
                    /\ pc' = "batch"
                    /\ UNCHANGED <<pending, exception>>
               ELSE /\ event' = ev
                    /\ in_txn' = TRUE
                    /\ stats' = [stats EXCEPT !.image_urls_replaced =
                                                IF replaced THEN @ + 1 ELSE @]
                    /\ UNCHANGED <<pending, result>>
                    /\ IF ~unix_nanos.ok \/ ~importance.ok
                       THEN \* int() raises TypeError or ValueError (line 365
                            \* for unix_nanos, before line 370 for
                            \* importance_score): not a psycopg2.Error, it
                            \* leaves ingest_batch as well
                            /\ exception' =
                                 <<IF ~unix_nanos.ok
                                   THEN IntError(Get(ev, "unix_nanos", PyInt(0)))
                                   ELSE IntError(Get(ev, "importance_score", PyInt(50))),
                                   "int()">>
                            /\ loc' = NoLocals
                            /\ pc' = "raised"
                       ELSE /\ loc' = [event_id |-> event_id,
                                       sources |-> sources,
                                       k |-> 0,
                                       category |-> category,
                                       latitude |-> latitude,
                                       longitude |-> longitude,
                                       location_name |-> location_name,
                                       event_data |-> event_data,
                                       n_source_ids |-> 0]
                            /\ pc' = "insert_event"
                            /\ UNCHANGED exception
    /\ UNCHANGED <<dry_run, conn, category_icons, csv, at_call, committed, n_events, i, calls>>

\* An INSERT INTO events on a connection in autocommit mode.
InsertEventAutocommit ==
    /\ pc = "insert_event"
    /\ \E raises \in BOOLEAN :
         IF raises
         THEN /\ DatabaseError("INSERT events")
              /\ UNCHANGED committed
         ELSE /\ committed' = [committed EXCEPT !.events = @ \cup {loc.event_data}]
              /\ stats' = [stats EXCEPT !.events_created = @ + 1]
              /\ pc' = "sources"
              /\ UNCHANGED <<pending, in_txn, result, loc, exception>>
    /\ UNCHANGED <<dry_run, conn, category_icons, csv, at_call, n_events, i, calls, event>>

(***************************************************************************)
(* Lines 391-393: INSERT INTO events, then events_created += 1.            *)
(***************************************************************************)
InsertEvent ==
    /\ pc = "insert_event"
    /\ \E raises \in BOOLEAN :
         IF raises
         THEN DatabaseError("INSERT events")
         ELSE /\ pending' = [pending EXCEPT !.events = @ \cup {loc.event_data}]
              /\ stats' = [stats EXCEPT !.events_created = @ + 1]
              /\ pc' = "sources"
              /\ UNCHANGED <<in_txn, result, loc, exception>>
    /\ UNCHANGED <<dry_run, conn, category_icons, csv, at_call, committed, n_events, i, calls, event>>

(***************************************************************************)
(* Lines 397-429: one turn of the loop over sources.                       *)
(***************************************************************************)
InsertSource ==
    /\ pc = "sources"
    /\ loc.k < Len(loc.sources)
    /\ LET source == loc.sources[loc.k + 1]
           v == validate_source(source, <<"source">>)
           source_id == Uuid(Len(calls), loc.k + 1)
           source_data == [id |-> source_id,
                           event_id |-> loc.event_id,
                           source_type |-> Get(source, "source_type", PyStr("other")),
                           title |-> Get(source, "title", None),
                           url |-> Get(source, "url", None),
                           citation |-> Get(source, "citation", None),
                           credibility_score |->
                               IntOf(Get(source, "credibility_score", PyInt(50))).n]
       IN IF ~v.ok
          THEN \* logged and skipped
               /\ loc' = [loc EXCEPT !.k = @ + 1]
               /\ UNCHANGED <<pending, in_txn, stats, result, pc, exception>>
          ELSE \E raises \in BOOLEAN :
                    IF raises
                    THEN DatabaseError("INSERT event_sources")
                    ELSE /\ pending' = [pending EXCEPT !.sources = @ \cup {source_data}]
                         /\ stats' = [stats EXCEPT !.sources_created = @ + 1]
                         /\ loc' = [loc EXCEPT !.k = @ + 1, !.n_source_ids = @ + 1]
                         /\ UNCHANGED <<in_txn, result, pc, exception>>
    /\ UNCHANGED <<dry_run, conn, category_icons, csv, at_call, committed, n_events, i, calls, event>>

(***************************************************************************)
(* Lines 433-465: the location row, once the loop over sources has ended.  *)
(***************************************************************************)
\* A display name that stands in for None only.
LocationNameUnlessNone(location_name) ==
    IF location_name /= None THEN location_name ELSE PyStr("Unknown")

\* location_name or 'Unknown' (line 445)
LocationName(location_name) ==
    IF Truthy(location_name) THEN location_name ELSE PyStr("Unknown")

InsertLocation ==
    /\ pc = "sources"
    /\ loc.k = Len(loc.sources)
    /\ IF loc.latitude /= None /\ loc.longitude /= None
       THEN LET location_data == [id |-> Uuid(Len(calls), Len(loc.sources) + 1),
                                  event_id |-> loc.event_id,
                                  location_name |-> LocationName(loc.location_name),
                                  location_type |-> "primary",
                                  lat |-> loc.latitude,
                                  lon |-> loc.longitude,
                                  is_primary |-> TRUE]
            IN \E raises \in BOOLEAN :
                    IF raises
                    THEN DatabaseError("INSERT event_locations")
                    ELSE /\ pending' = [pending EXCEPT !.locations = @ \cup {location_data}]
                         /\ pc' = "commit"
                         /\ UNCHANGED <<in_txn, stats, result, loc, exception>>
       ELSE /\ pc' = "commit"
            /\ UNCHANGED <<pending, in_txn, stats, result, loc, exception>>
    /\ UNCHANGED <<dry_run, conn, category_icons, csv, at_call, committed, n_events, i, calls, event>>

(***************************************************************************)
(* Lines 467-468: commit and return.                                       *)
(***************************************************************************)
Commit ==
    /\ pc = "commit"
    /\ \E raises \in BOOLEAN :
         IF raises
         THEN /\ DatabaseError("COMMIT")
              /\ UNCHANGED committed
         ELSE /\ committed' = [t \in DOMAIN committed |-> committed[t] \cup pending[t]]
              /\ pending' = NoRows
              /\ in_txn' = FALSE
              /\ result' = Return(TRUE, <<"Created event with ",
                                          ToString(loc.n_source_ids), " sources">>,
                                  loc.event_id)
              /\ loc' = NoLocals
              /\ pc' = "batch"
              /\ UNCHANGED <<stats, exception>>
    /\ UNCHANGED <<dry_run, conn, category_icons, csv, at_call, n_events, i, calls, event>>

(***************************************************************************)
(* ingest_batch, lines 497-504.                                            *)
(***************************************************************************)
Dict(f) == [isdict |-> TRUE, f |-> f]
NotADict == [isdict |-> FALSE, f |-> [x \in {} |-> None]]

\* Candidate sources.
SrcFull == Dict(("url" :> PyStr("http://a")) @@ ("title" :> PyStr("A"))
                @@ ("source_type" :> PyStr("book"))
                @@ ("credibility_score" :> PyInt(85)))
SrcUrl == Dict(("url" :> PyStr("http://b")))
SrcTitle == Dict(("title" :> PyStr("B")) @@ ("citation" :> PyStr("B, p. 1")))
SrcEmpty == Dict([x \in {} |-> None])
SrcNulls == Dict(("url" :> None) @@ ("title" :> None))
SrcBadType == Dict(("url" :> PyStr("http://c")) @@ ("source_type" :> PyStr("blog")))
SrcBadScore == Dict(("url" :> PyStr("http://d")) @@ ("credibility_score" :> PyInt(101)))
SrcTextScore == Dict(("url" :> PyStr("http://e")) @@ ("credibility_score" :> PyStr("high")))

\* A candidate event that passes validate_event.
BaseEvent ==
    [isdict |-> TRUE,
     f |-> ("title" :> PyStr("Moon landing"))
           @@ ("unix_seconds" :> PyInt(-14182940))
           @@ ("precision_level" :> PyStr("day"))
           @@ ("latitude" :> PyFloat(48))
           @@ ("longitude" :> PyFloat(2))
           @@ ("category" :> PyStr("science"))
           @@ ("image_url" :> PyStr("http://img/moon.png")),
     sources |-> SourceList(<<SrcFull, SrcUrl>>)]

\* Absent stands for a key the dict does not have.
Absent == [t |-> "absent", n |-> 0, s |-> ""]
Put(e, k, v) == IF v = Absent THEN Pop(e, k) ELSE With(e, k, v)

\* The values each key of a candidate event takes in the model.
FieldOptions ==
    [title |-> {Absent, None, PyStr("")},
     unix_seconds |-> {Absent, None, PyStr("abc"), PyStr("-5")},
     precision_level |-> {Absent, PyStr("fortnight"), None},
     latitude |-> {Absent, None, PyInt(91), PyInt(-91), PyInt(90), PyInt(-90),
                   PyStr("abc"), PyStr("90.0"), PyList},
     longitude |-> {Absent, None, PyInt(181), PyInt(-181), PyInt(180), PyInt(-180),
                    PyStr("abc"), PyStr("2.0")},
     category |-> {Absent, None, PyInt(7), PyStr(""), PyStr("ghost"), PyStr("art"),
                   PyStr("history.ancient"), PyStr("art.painting"),
                   PyStr("science.physics.quantum")},
     image_url |-> {Absent, None, PyStr("")},
     unix_nanos |-> {PyInt(5), None, PyStr("abc"), PyStr("50")},
     importance_score |-> {PyInt(75), PyInt(101), PyInt(-1), PyStr("abc"), PyStr("50"), None},
     location_name |-> {PyStr("Paris"), None, PyStr("")},
     description |-> {PyStr("First crewed landing"), None}]

\* The events of the model: BaseEvent with one key changed.
KeyEvents(k) == {Put(BaseEvent, k, v) : v \in FieldOptions[k]}
OneKeyEvents == UNION {KeyEvents(k) : k \in DOMAIN FieldOptions}

\* BaseEvent with its image and its category both changed.
ImageCategoryEvents ==
    {Put(Put(BaseEvent, "image_url", m), "category", PyStr(c)) :
        m \in FieldOptions.image_url,
        c \in {"science", "art", "history.ancient", "ghost"}}

\* BaseEvent without an image and with a sub-second component.
NanosEvents ==
    {Put(Put(BaseEvent, "image_url", Absent), "unix_nanos", v) :
        v \in FieldOptions.unix_nanos}

\* BaseEvent with another 'sources' entry.
BatchSourceLists ==
    {<<>>, <<SrcFull>>, <<SrcTitle>>, <<SrcNulls>>, <<SrcEmpty>>, <<SrcBadType>>,
     <<SrcFull, SrcUrl, SrcTitle>>,
     <<SrcFull, SrcEmpty, SrcUrl>>, <<SrcEmpty, SrcFull, SrcUrl>>,
     <<SrcFull, SrcUrl, SrcBadScore>>, <<SrcFull, NotADict, SrcEmpty>>}
SourcesEvents ==
    {WithSources(BaseEvent, NoSources),
     WithSources(BaseEvent, [present |-> TRUE, islist |-> FALSE, items |-> <<>>])}
    \cup {WithSources(BaseEvent, SourceList(l)) : l \in BatchSourceLists}

\* BaseEvent with a display name for its location.
LocationEvents == KeyEvents("location_name")

\* BaseEvent without one of the required keys, or with an empty one.
RequiredKeys == {"title", "unix_seconds", "precision_level", "latitude",
                 "longitude", "category"}
MissingEvents ==
    {Pop(BaseEvent, k) : k \in RequiredKeys}
    \cup {Put(BaseEvent, "title", PyStr("")), Put(BaseEvent, "latitude", None),
          Put(BaseEvent, "longitude", None)}

\* BaseEvent with a value validate_event rejects, and something that is no dict.
MalformedEvents ==
    {Put(BaseEvent, "latitude", PyInt(91)), Put(BaseEvent, "longitude", PyStr("abc")),
     Put(BaseEvent, "precision_level", PyStr("fortnight")),
     Put(BaseEvent, "importance_score", PyInt(101)),
     [isdict |-> FALSE, f |-> [x \in {} |-> None], sources |-> NoSources]}

\* What the elements of the list handed to ingest_batch are drawn from.
CandidateEvents ==
    {BaseEvent} \cup MissingEvents \cup MalformedEvents \cup ImageCategoryEvents
    \cup NanosEvents \cup LocationEvents \cup SourcesEvents

\* for i, event in enumerate(events, 1): the next element is handed to
\* ingest_event_with_sources.
BatchNext ==
    /\ pc = "batch"
    /\ i < n_events
    /\ \E e \in CandidateEvents :
         /\ event' = e
         /\ at_call' = [event |-> e, stats |-> stats, result |-> result,
                        same_dict |-> FALSE, db_errors |-> DatabaseErrorsSoFar]
    /\ i' = i + 1
    /\ calls' = Append(calls, i + 1)
    /\ pc' = "validate"
    /\ UNCHANGED <<dry_run, conn, exception, category_icons, csv, stats, committed, pending, in_txn,
                   n_events, loc, result>>

\* The same loop when events[i] is the very dict that events[i - 1] is (a
\* list may hold one object twice, as in ingest_batch([e, e])): the call
\* is handed the dict as the call before left it.
BatchNextSameDict ==
    /\ pc = "batch"
    /\ 0 < i
    /\ i < n_events
    /\ at_call' = [event |-> event, stats |-> stats, result |-> result,
                   same_dict |-> TRUE, db_errors |-> DatabaseErrorsSoFar]
    /\ i' = i + 1
    /\ calls' = Append(calls, i + 1)
    /\ pc' = "validate"
    /\ UNCHANGED <<dry_run, conn, exception, category_icons, csv, stats, committed, pending, in_txn,
                   n_events, event, loc, result>>

\* return self.stats
BatchReturn ==
    /\ pc = "batch"
    /\ i = n_events
    /\ pc' = "returned"
    /\ UNCHANGED <<dry_run, conn, exception, category_icons, csv, at_call, stats, committed, pending, in_txn,
                   n_events, i, calls, event, loc, result>>

(***************************************************************************)
(* connect, lines 111-125: psycopg2.connect gives the connection, or       *)
(* raises psycopg2.Error and connect returns False with self.conn still    *)
(* None (main then returns 1, lines 739-740).                              *)
(***************************************************************************)
connect ==
    /\ pc = "new"
    /\ conn = "None"
    /\ \E connected \in BOOLEAN :
         IF connected
         THEN conn' = "open" /\ pc' = "new"
         ELSE conn' = "None" /\ pc' = "connect failed"
    /\ UNCHANGED <<dry_run, exception, category_icons, csv, at_call, stats, committed,
                   pending, in_txn, n_events, i, calls, event, loc, result>>

(***************************************************************************)
(* disconnect, lines 127-131, as main's finally clause calls it once the   *)
(* run has returned or an exception has left it: self.conn.close() ends    *)
(* the transaction a call left open, and what it wrote is discarded.       *)
(***************************************************************************)
disconnect ==
    /\ pc \in {"returned", "loader returned", "raised"}
    /\ conn = "open"
    /\ conn' = "closed"
    /\ pending' = NoRows
    /\ in_txn' = FALSE
    /\ UNCHANGED <<dry_run, exception, category_icons, csv, at_call, stats, committed,
                   n_events, i, calls, event, loc, result, pc>>

\* ingest_batch(events, user_id) called on a list of n_events events.
CallIngestBatch ==
    /\ pc = "new"
    /\ pc' = "batch"
    /\ UNCHANGED <<dry_run, conn, exception, category_icons, csv, at_call, stats, committed,
                   pending, in_txn, n_events, i, calls, event, loc, result>>

\* What the path handed to ingest_from_json_file may be: no such file, a
\* directory, a text that is not JSON, JSON that is neither a list nor an
\* object with an 'events' key (as 5, or {}), an object whose 'events' has
\* no len() (as {"events": 5}), and a list of events or an object that
\* holds one.
JsonFiles ==
    {"missing", "directory", "not JSON", "other JSON", "events without len", "events"}

(***************************************************************************)
(* ingest_from_json_file, lines 525-562, up to the call of ingest_batch    *)
(* on the n_events events of the file.  Only json.JSONDecodeError and      *)
(* FileNotFoundError are handled: the IsADirectoryError of open() and the  *)
(* TypeError of len(events) leave the function.                            *)
(***************************************************************************)
ingest_from_json_file ==
    /\ pc = "new"
    /\ \E file \in JsonFiles :
         IF file = "missing"
         THEN /\ stats' = [stats EXCEPT !.errors =
                              Append(@, <<"File not found: ", "events.json">>)]
              /\ pc' = "loader returned"
              /\ UNCHANGED exception
         ELSE IF file = "not JSON"
         THEN /\ stats' = [stats EXCEPT !.errors =
                              Append(@, <<"Expecting value: line 1 column 1 (char 0)">>)]
              /\ pc' = "loader returned"
              /\ UNCHANGED exception
         ELSE IF file = "other JSON"
         THEN /\ pc' = "loader returned"
              /\ UNCHANGED <<stats, exception>>
         ELSE IF file = "directory"
         THEN /\ exception' = <<"IsADirectoryError", "events.json">>
              /\ pc' = "raised"
              /\ UNCHANGED stats
         ELSE IF file = "events without len"
         THEN /\ exception' = <<"TypeError", "len()">>
              /\ pc' = "raised"
              /\ UNCHANGED stats
         ELSE /\ pc' = "batch"
              /\ UNCHANGED <<stats, exception>>
    /\ UNCHANGED <<dry_run, conn, category_icons, csv, at_call, committed, pending,
                   in_txn, n_events, i, calls, event, loc, result>>

(***************************************************************************)
(* __init__, lines 98-109: a new ingester, not connected, and a list or a  *)
(* file of 0..MaxBatch events for it.                                      *)
(***************************************************************************)
Init ==
    /\ dry_run \in BOOLEAN
    /\ conn = "None"
    /\ exception = <<>>
    /\ category_icons \in IconMaps
    /\ stats = NoStats
    /\ committed = NoRows
    /\ pending = NoRows
    /\ in_txn = FALSE
    /\ n_events \in 0..MaxBatch
    /\ i = 0
    /\ calls = <<>>
    /\ event = NoEvent
    /\ loc = NoLocals
    /\ result = NoResult
    /\ at_call = NoCall
    /\ csv = NoCsv
    /\ pc = "new"

Next ==
    \/ connect
    \/ CallIngestBatch
    \/ ingest_from_json_file
    \/ BatchNext
    \/ BatchNextSameDict
    \/ Validate
    \/ Prepare
    \/ InsertEvent
    \/ InsertSource
    \/ InsertLocation
    \/ Commit
    \/ BatchReturn
    \/ disconnect

Spec == Init /\ [][Next]_vars

(***************************************************************************)
(* validate_event on its own: one call on one candidate event.             *)
(***************************************************************************)
\* Longest 'sources' list handed to validate_event on its own.
MaxSources == 3

SourcePool == {SrcFull, SrcUrl, SrcTitle, SrcEmpty, SrcNulls, SrcBadType,
               SrcBadScore, SrcTextScore, NotADict}
SourceLists == UNION {[1..k -> SourcePool] : k \in 0..MaxSources}

\* BaseEvent with two keys changed.
TwoKeyEvents ==
    UNION {{Put(e, k, v) : v \in FieldOptions[k]} :
             e \in OneKeyEvents, k \in DOMAIN FieldOptions}

ValidatorEvents ==
    CandidateEvents \cup OneKeyEvents \cup TwoKeyEvents
    \cup {WithSources(e, SourceList(l)) :
            e \in {BaseEvent, Put(BaseEvent, "importance_score", PyInt(101))},
            l \in SourceLists}

CallValidateEvent ==
    /\ pc = "call validate_event"
    /\ LET v == validate_event(event)
       IN result' = Return(v.ok, v.msg, None)
    /\ pc' = "validate_event returned"
    /\ UNCHANGED <<dry_run, conn, exception, category_icons, csv, at_call, stats, committed, pending, in_txn,
                   n_events, i, calls, event, loc>>

InitV ==
    /\ dry_run = FALSE
    /\ conn = "None"
    /\ exception = <<>>
    /\ category_icons = IconsLoaded
    /\ stats = NoStats
    /\ committed = NoRows
    /\ pending = NoRows
    /\ in_txn = FALSE
    /\ n_events = 0
    /\ i = 0
    /\ calls = <<>>
    /\ event \in ValidatorEvents
    /\ loc = NoLocals
    /\ result = NoResult
    /\ at_call = NoCall
    /\ csv = NoCsv
    /\ pc = "call validate_event"

NextV == CallValidateEvent

SpecV == InitV /\ [][NextV]_vars

(***************************************************************************)
(* Properties.                                                             *)
(***************************************************************************)
\* The rows a call of ingest_event_with_sources wrote carry identifiers
\* drawn by that call.
RowsOfCall(rows, c) ==
    {r \in rows.events \cup rows.sources \cup rows.locations : r.id.n = c}

InCall == pc \in {"validate", "prepare", "insert_event", "sources", "commit"}
BetweenCalls == pc \in {"batch", "returned"}

\* The last call returned through the handler of psycopg2.Error, raised by
\* a statement after the INSERT INTO events.
FailedAfterEventInsert ==
    /\ pc = "batch"
    /\ Len(calls) > 0
    /\ Len(result.msg) = 2
    /\ result.msg[1] = "Database error: "
    /\ result.msg[2] \in {"INSERT event_sources", "INSERT event_locations", "COMMIT"}

\* The last call was left by the exception of self.conn.rollback(), in the
\* handler of a psycopg2.Error raised by a statement after the INSERT INTO
\* events.
RaisedAfterEventInsert ==
    /\ pc = "raised"
    /\ Len(exception) = 2
    /\ exception[1] = "psycopg2.InterfaceError"
    /\ exception[2] \in {"INSERT event_sources", "INSERT event_locations", "COMMIT"}

\* C1 (as claimed): when the event insert succeeded and a later source
\* insert, the location insert or the commit raised a persistence error,
\* the committed store holds no event, source or location row of that
\* attempt, and the call returned failure with no event id.
C1_RollbackLeavesNothing ==
    (FailedAfterEventInsert \/ RaisedAfterEventInsert) =>
        /\ RowsOfCall(committed, Len(calls)) = {}
        /\ pc = "batch"
        /\ result.success = FALSE
        /\ result.event_id = None

\* C2: at every point of a run the committed rows are whole groups: every
\* committed source and location row references a committed event row,
\* every committed event row has its location row, no row of the call in
\* progress is committed before the call commits, and right after a
\* successful call all the sources it inserted are committed with the event.
C2_WholeGroups ==
    /\ \A r \in committed.sources \cup committed.locations :
         \E e \in committed.events : e.id = r.event_id
    /\ \A e \in committed.events :
         Cardinality({l \in committed.locations : l.event_id = e.id}) = 1
    /\ InCall => RowsOfCall(committed, Len(calls)) = {}
    /\ (pc = "batch" /\ result.success /\ ~dry_run) =>
         /\ \E e \in committed.events : e.id = result.event_id
         /\ result.msg[2] =
              ToString(Cardinality({r \in committed.sources :
                                      r.event_id = result.event_id}))
    /\ (pc = "batch" /\ Len(calls) > 0 /\ ~result.success) =>
         RowsOfCall(committed, Len(calls)) = {}

\* C2 witness: in the middle of a call, with the event row and two source
\* rows written and not committed, while the group of an earlier event
\* (event, sources, location) is committed.
C2_Witness ==
    /\ pc = "sources"
    /\ Cardinality(pending.events) = 1
    /\ Cardinality(pending.sources) = 2
    /\ Cardinality(committed.events) = 1
    /\ Cardinality(committed.sources) = 3
    /\ Cardinality(committed.locations) = 1

\* The event lacks one of the required fields: title absent or empty,
\* unix_seconds or precision_level absent, latitude or longitude absent or
\* null, category absent.
LacksRequired(e) ==
    /\ e.isdict
    /\ \/ \E k \in RequiredKeys : ~Has(e, k)
       \/ ~Truthy(e.f["title"])
       \/ e.f["latitude"] = None
       \/ e.f["longitude"] = None

\* C3: a call on an event that lacks a required field returns failure with
\* no event id, adds exactly 1 to events_skipped, leaves the other counters
\* alone and does not touch the store (no lookup, no insert, no commit).
C3_MissingFieldRejected ==
    [][(pc = "validate" /\ LacksRequired(event)) =>
         /\ pc' = "batch"
         /\ result'.success = FALSE
         /\ result'.event_id = None
         /\ stats' = [stats EXCEPT !.events_skipped = @ + 1]
         /\ committed' = committed
         /\ pending' = pending
         /\ in_txn' = in_txn
         /\ event' = event]_vars

\* C3 witness: a call on an event with an empty title has returned failure
\* and was counted as skipped, on an ingester that writes to the store.
C3_Witness ==
    /\ pc = "batch"
    /\ ~dry_run
    /\ event = Put(BaseEvent, "title", PyStr(""))
    /\ LacksRequired(event)
    /\ ~result.success
    /\ stats.events_skipped = 2

\* The event is valid apart from its sources, its category is registered,
\* and its sources are a list of three of which exactly one fails
\* validate_source.
ThreeSourcesOneInvalid(e) ==
    /\ e.isdict
    /\ e.sources.present /\ e.sources.islist
    /\ Len(e.sources.items) = 3
    /\ Cardinality({j \in 1..3 : ~validate_source(e.sources.items[j], <<"source">>).ok}) = 1
    /\ validate_event(WithSources(e, NoSources)).ok
    /\ e.f["category"].s \in CategoryTable

\* C4 (as claimed): the call on a valid event with three sources, one of
\* them invalid, succeeds, and exactly two source rows exist for the event.
C4_InvalidSourceSkipped ==
    (pc = "batch" /\ ~dry_run /\ Len(calls) > 0 /\ ThreeSourcesOneInvalid(event)) =>
        /\ result.success
        /\ Cardinality({r \in committed.sources : r.event_id = result.event_id}) = 2

\* The 0-based indices of the elements of a list that fail validate_source.
FailingIndices(items) ==
    {j \in 0..(Len(items) - 1) : ~validate_source(items[j + 1], SourceContext(j)).ok}
Least(S) == CHOOSE x \in S : \A y \in S : x <= y

\* The event passes every check that precedes the sources, and its sources
\* are a list with at least one failing element.
HasFailingSource(e) ==
    /\ validate_event(WithSources(e, NoSources)).ok
    /\ e.sources.present /\ e.sources.islist
    /\ FailingIndices(e.sources.items) /= {}

\* C5: validate_event validates the sources in index order; the first
\* failing element makes it return (False, reason), the reason is the one
\* validate_source gives for that element and begins with 'sources[i]', i
\* the index of that element, and the elements after it are not examined.
C5_FirstFailingSourceNamed ==
    (pc = "validate_event returned" /\ HasFailingSource(event)) =>
        LET first == Least(FailingIndices(event.sources.items))
        IN /\ result.success = FALSE
           /\ result.msg = validate_source(event.sources.items[first + 1],
                                           SourceContext(first)).msg
           /\ SubSeq(result.msg, 1, 3) = <<"sources[", ToString(first), "]">>
           /\ ValidateSources(event.sources.items, 0).examined = first + 1

\* C5 witness: validate_event has returned on a list of three sources whose
\* second and third elements both fail; the reason names index 1.
C5_Witness ==
    /\ pc = "validate_event returned"
    /\ HasFailingSource(event)
    /\ Len(event.sources.items) = 3
    /\ FailingIndices(event.sources.items) = {1, 2}
    /\ SubSeq(result.msg, 1, 3) = <<"sources[", "1", "]">>

\* C6 (as claimed): a run of ingest_batch ends by returning the statistics,
\* after one call per element, in input order.
C6_EveryElementAttempted ==
    (pc = "returned" \/ (pc = "raised" /\ Len(calls) > 0)) =>
        /\ pc = "returned"
        /\ calls = [k \in 1..n_events |-> k]

\* C7 (as claimed): no exception escapes ingest_event_with_sources, so a
\* call always ends with a returned (success, message, event_id).
C7_NoExceptionEscapes == ~(pc = "raised" /\ Len(calls) > 0)

\* C8 (as claimed): between calls of a run that writes to the store,
\* events_created is the number of committed event rows.
C8_EventsCreatedIsCommitted ==
    (BetweenCalls /\ ~dry_run) => stats.events_created = Cardinality(committed.events)

\* C9 (as claimed): between calls of a run that writes to the store,
\* sources_created is the number of committed source rows.
C9_SourcesCreatedIsCommitted ==
    (BetweenCalls /\ ~dry_run) => stats.sources_created = Cardinality(committed.sources)

\* C10 (as claimed): every committed event row has a registered category
\* and a non-null image_url.
C10_ImageNeverNull ==
    \A e \in committed.events :
        /\ e.category.t = "str" /\ e.category.s \in CategoryTable
        /\ e.image_url /= None

\* The icon map has no placeholder for the category, nor for its first
\* dot-separated segment.
NoPlaceholder(c) ==
    /\ c \notin DOMAIN category_icons
    /\ c \in DOMAIN DotSplit => DotSplit[c][1] \notin DOMAIN category_icons

\* C10 (amended): every committed event row has a registered category, and
\* its image_url is null only if the icon map has no placeholder for the
\* category or its first segment; the row a successful call has just
\* committed has a null image_url exactly when the candidate supplied none
\* (absent or null) and there is no such placeholder.
C10_ImageNullOnlyWithoutPlaceholder ==
    /\ \A e \in committed.events :
         /\ e.category.t = "str" /\ e.category.s \in CategoryTable
         /\ e.image_url = None => NoPlaceholder(e.category.s)
    /\ (pc = "batch" /\ result.success /\ ~dry_run) =>
         \A e \in committed.events :
            e.id = result.event_id =>
               (e.image_url = None <=>
                   (Get(event, "image_url", None) = None /\ NoPlaceholder(e.category.s)))

\* C10 witness: a committed event row whose image_url is null, next to one
\* whose image_url is the placeholder of its parent category.
C10_Witness ==
    /\ pc = "batch"
    /\ \E e \in committed.events : e.image_url = None /\ e.category = PyStr("art")
    /\ \E e \in committed.events :
         /\ e.category = PyStr("history.ancient")
         /\ e.image_url = PyStr("/images/categories/history.svg")

(***************************************************************************)
(* Properties of the image step, the category lookup and the location.     *)
(***************************************************************************)
\* The last call has returned to ingest_batch.
Returned == pc = "batch" /\ Len(calls) > 0

\* The last call has returned success after its commit.
Persisted == Returned /\ result.success /\ ~dry_run

\* The event was handed over with no image: image_url absent, None or ''.
NoImage(e) == ~Truthy(Get(e, "image_url", None))

\* C11: when a valid event handed over with no image_url (absent, None or
\* empty), whose category is registered and has a placeholder of its own in
\* the icon map, has been ingested with success, the committed event row of
\* the returned id carries that placeholder as image_url, and
\* image_urls_replaced is exactly one more than when the call was made.
C11_PlaceholderPersistedAndCounted ==
    (/\ Persisted
     /\ NoImage(at_call.event)
     /\ at_call.event.f["category"].s \in DOMAIN category_icons)
    => /\ \E r \in committed.events :
            /\ r.id = result.event_id
            /\ r.image_url = PyStr(category_icons[at_call.event.f["category"].s])
       /\ stats.image_urls_replaced = at_call.stats.image_urls_replaced + 1

\* C11 witness: the second call of a run, handed an event with image_url
\* None and category 'science', has committed a row with the placeholder of
\* 'science', and the counter went from 1 to 2.
C11_Witness ==
    /\ Persisted
    /\ at_call.event = Put(BaseEvent, "image_url", None)
    /\ category_icons = IconsLoaded
    /\ at_call.stats.image_urls_replaced = 1
    /\ stats.image_urls_replaced = 2
    /\ \E r \in committed.events :
         /\ r.id = result.event_id
         /\ r.image_url = PyStr("/images/categories/science.svg")

\* C12: when an event handed over with a non-empty image_url has been
\* ingested with success, the committed event row of the returned id carries
\* exactly that image_url; and whatever the outcome of the call,
\* image_urls_replaced is what it was when the call was made.
C12_SuppliedImageKept ==
    (Returned /\ ~NoImage(at_call.event))
    => /\ stats.image_urls_replaced = at_call.stats.image_urls_replaced
       /\ Persisted =>
            \E r \in committed.events :
               /\ r.id = result.event_id
               /\ r.image_url = at_call.event.f["image_url"]

\* C12 witness: an event with its own image_url and a category that has a
\* placeholder in the icon map has been committed with its own image_url,
\* after an earlier call of the run had taken a placeholder.
C12_Witness ==
    /\ Persisted
    /\ at_call.event = BaseEvent
    /\ category_icons = IconsLoaded
    /\ "science" \in DOMAIN category_icons
    /\ at_call.stats.image_urls_replaced = 1
    /\ stats.image_urls_replaced = 1
    /\ \E r \in committed.events :
         /\ r.id = result.event_id
         /\ r.image_url = PyStr("http://img/moon.png")

\* C13: when a candidate event whose ingest has just returned success (so it
\* was valid, its category registered and the store working) is handed to
\* ingest_event_with_sources a second time, the second call returns success
\* too, with an id different from the first, and the store holds an event
\* row for each of the two ids.
C13_SecondSubmissionSucceeds ==
    (/\ Returned
     /\ ~dry_run
     /\ at_call.same_dict
     /\ at_call.result.success)
    => /\ result.success
       /\ result.event_id /= at_call.result.event_id
       /\ \E r \in committed.events : r.id = at_call.result.event_id
       /\ \E r \in committed.events : r.id = result.event_id

\* Every reason validate_event gives for the events of ValidatorEvents.
ValidatorReasons == {validate_event(e).msg : e \in ValidatorEvents}

\* The category the event was handed over with is not a row of categories.
Unregistered(e) == ~(e.f["category"].s \in CategoryTable)

\* C14: when an event that passes validate_event but names a category that
\* is not in the registry has been handed to ingest_event_with_sources and
\* the lookup itself did not fail, the call returned failure with no event
\* id and a reason that is none of the reasons of validate_event (nor the
\* validation-failure message of the ingest); events_skipped is one more
\* than at the call, every other counter and the error list are as at the
\* call, and the store holds no row of this call, committed or pending.
C14_UnknownCategoryRejected ==
    (/\ Returned
     /\ ~dry_run
     /\ validate_event(at_call.event).ok
     /\ Unregistered(at_call.event)
     /\ result.msg[1] /= "Database error: ")
    => /\ ~result.success
       /\ result.event_id = None
       /\ result.msg = <<"Category '">> \o StrOf(at_call.event.f["category"])
                       \o <<"' not found in database">>
       /\ result.msg \notin ValidatorReasons
       /\ result.msg[1] /= "Event validation failed: "
       /\ stats = [at_call.stats EXCEPT !.events_skipped = @ + 1]
       /\ RowsOfCall(committed, Len(calls)) = {}
       /\ RowsOfCall(pending, Len(calls)) = {}

\* C14 witness: the second call of a run, handed a valid event of category
\* 'ghost', has returned the category reason while the event of the first
\* call stays the only committed one.
C14_Witness ==
    /\ Returned
    /\ ~dry_run
    /\ at_call.event = Put(Put(BaseEvent, "category", PyStr("ghost")), "image_url", None)
    /\ result = Return(FALSE, <<"Category '", "ghost", "' not found in database">>, None)
    /\ stats.events_created = 1
    /\ stats.events_skipped = 1
    /\ Cardinality(committed.events) = 1

\* The location rows of an event.
LocationsOf(rows, id) == {l \in rows.locations : l.event_id = id}

\* C15: every committed event row has exactly one committed location row,
\* and that row is the primary one; when a call has returned success, the
\* location row of its event stores the latitude and longitude the event
\* was handed over with, and its name is the event's location_name, or
\* 'Unknown' when location_name is absent, None or empty.
C15_OnePrimaryLocation ==
    /\ \A e \in committed.events :
         /\ Cardinality(LocationsOf(committed, e.id)) = 1
         /\ \A l \in LocationsOf(committed, e.id) :
              l.is_primary /\ l.location_type = "primary"
    /\ Persisted =>
         \A l \in LocationsOf(committed, result.event_id) :
            /\ l.lat = at_call.event.f["latitude"]
            /\ l.lon = at_call.event.f["longitude"]
            /\ l.location_name =
                 IF Get(at_call.event, "location_name", None) \in {None, PyStr("")}
                 THEN PyStr("Unknown")
                 ELSE at_call.event.f["location_name"]

\* C15 witness: two events are committed, the first handed over with
\* location_name 'Paris' and the second with the empty name; each has its
\* own location row at latitude 48.0, longitude 2.0, named 'Paris' and
\* 'Unknown'.
C15_Witness ==
    /\ Persisted
    /\ at_call.event = Put(BaseEvent, "location_name", PyStr(""))
    /\ Cardinality(committed.events) = 2
    /\ \E l \in LocationsOf(committed, at_call.result.event_id) :
         l.location_name = PyStr("Paris")
    /\ \E l \in LocationsOf(committed, result.event_id) :
         /\ l.location_name = PyStr("Unknown")
         /\ l.lat = PyFloat(48)
         /\ l.lon = PyFloat(2)
         /\ l.is_primary

(***************************************************************************)
(* Properties of validate_event on its own.                                *)
(***************************************************************************)
\* validate_event has returned on the event it was called on.
ValidatorReturned == pc = "validate_event returned"

\* The event holds every required field, with a text for category.
HasRequired(e) ==
    /\ e.isdict
    /\ ~LacksRequired(e)
    /\ e.f["category"].t = "str"

MissingReasons ==
    {<<"Missing required field: title">>,
     <<"Missing required field: unix_seconds">>,
     <<"Missing required field: precision_level">>,
     <<"Missing required field: latitude (all events must have geo point)">>,
     <<"Missing required field: longitude (all events must have geo point)">>,
     <<"Missing required field: category (must be a leaf category)">>}

CoordinateTypeReasons ==
    {<<"latitude must be numeric">>, <<"longitude must be numeric">>}

CoordinateRangeReasons ==
    {<<"latitude must be between -90 and 90">>,
     <<"longitude must be between -180 and 180">>}

\* The number float() makes of v lies in lo..hi.
NumericWithin(v, lo, hi) == FloatOf(v).ok /\ lo <= FloatOf(v).n /\ FloatOf(v).n <= hi

\* C16: for an event holding every required field, validate_event rejects
\* a latitude that float() cannot convert with 'latitude must be numeric'
\* and a numeric latitude outside -90..90 with 'latitude must be between
\* -90 and 90'; with the latitude in range it does the same for the
\* longitude and -180..180.  The type reasons, the range reasons and the
\* 'Missing required field' reasons are all different texts, and with both
\* coordinates within their ranges, the ends -90, 90, -180, 180 included,
\* none of the coordinate reasons is given.
C16_CoordinateReasons ==
    /\ CoordinateTypeReasons \cap CoordinateRangeReasons = {}
    /\ (CoordinateTypeReasons \cup CoordinateRangeReasons) \cap MissingReasons = {}
    /\ (ValidatorReturned /\ HasRequired(event)) =>
         LET lat == event.f["latitude"]
             lon == event.f["longitude"]
         IN IF ~FloatOf(lat).ok
            THEN ~result.success /\ result.msg = <<"latitude must be numeric">>
            ELSE IF ~NumericWithin(lat, -90, 90)
            THEN ~result.success /\ result.msg = <<"latitude must be between -90 and 90">>
            ELSE IF ~FloatOf(lon).ok
            THEN ~result.success /\ result.msg = <<"longitude must be numeric">>
            ELSE IF ~NumericWithin(lon, -180, 180)
            THEN ~result.success
                 /\ result.msg = <<"longitude must be between -180 and 180">>
            ELSE result.msg \notin CoordinateTypeReasons \cup CoordinateRangeReasons

\* C16 witness: validate_event has accepted an event at latitude -90 and
\* longitude 180.
C16_Witness ==
    /\ ValidatorReturned
    /\ event = Put(Put(BaseEvent, "latitude", PyInt(-90)), "longitude", PyInt(180))
    /\ result.success
    /\ result.msg = <<>>

\* The required keys in the order validate_event asks for them, and the
\* reason given for each.
RequiredOrder == <<"title", "unix_seconds", "precision_level", "latitude",
                   "longitude", "category">>

MissingReason ==
    [title |-> <<"Missing required field: title">>,
     unix_seconds |-> <<"Missing required field: unix_seconds">>,
     precision_level |-> <<"Missing required field: precision_level">>,
     latitude |-> <<"Missing required field: latitude (all events must have geo point)">>,
     longitude |-> <<"Missing required field: longitude (all events must have geo point)">>,
     category |-> <<"Missing required field: category (must be a leaf category)">>]

\* Key k of e counts as missing.
Lacks(e, k) ==
    \/ ~Has(e, k)
    \/ k = "title" /\ ~Truthy(e.f[k])
    \/ k \in {"latitude", "longitude"} /\ e.f[k] = None

\* The first group of checks, in the order of the claim, that e fails;
\* "none" when it fails none.
FirstFailingGroup(e) ==
    IF ~e.isdict THEN "type"
    ELSE IF (\E j \in 1..Len(RequiredOrder) : Lacks(e, RequiredOrder[j]))
            \/ e.f["category"].t /= "str"
    THEN "required"
    ELSE IF ~(NumericWithin(e.f["latitude"], -90, 90)
              /\ NumericWithin(e.f["longitude"], -180, 180))
    THEN "coordinates"
    ELSE IF ~(e.f["precision_level"].t = "str"
              /\ e.f["precision_level"].s \in PRECISION_LEVELS)
    THEN "precision"
    ELSE IF ~IntOf(e.f["unix_seconds"]).ok
    THEN "timestamp"
    ELSE IF Has(e, "importance_score")
            /\ ~(IntOf(e.f["importance_score"]).ok
                 /\ IntOf(e.f["importance_score"]).n \in 0..100)
    THEN "importance"
    ELSE IF e.sources.present
            /\ (~e.sources.islist \/ FailingIndices(e.sources.items) /= {})
    THEN "sources"
    ELSE "none"

\* The first text part of the reasons of each group.
GroupReasons ==
    [type |-> {"Event must be a dictionary"},
     required |-> {MissingReason[k][1] : k \in DOMAIN MissingReason}
                  \cup {"category must be a string"},
     coordinates |-> {r[1] : r \in CoordinateTypeReasons \cup CoordinateRangeReasons},
     precision |-> {"Invalid precision_level: "},
     timestamp |-> {"unix_seconds must be numeric"},
     importance |-> {"importance_score must be numeric",
                     "importance_score must be between 0 and 100"},
     sources |-> {"sources must be a list", "sources["}]

\* C17: validate_event returns the reason of the first group of checks the
\* event fails, the groups taken in the order: type of the event, required
\* fields (title, unix_seconds, precision_level, latitude, longitude,
\* category, the first missing one being named), coordinates, precision
\* level, timestamp, importance score, sources; it returns (True, '')
\* exactly when the event fails none of them.
C17_FirstFailingCheckReported ==
    ValidatorReturned =>
        LET g == FirstFailingGroup(event)
        IN /\ g = "none" => result.success /\ result.msg = <<>>
           /\ g /= "none" => ~result.success /\ result.msg[1] \in GroupReasons[g]
           /\ \A j \in 1..Len(RequiredOrder) :
                (/\ event.isdict
                 /\ Lacks(event, RequiredOrder[j])
                 /\ \A h \in 1..(j - 1) : ~Lacks(event, RequiredOrder[h]))
                => result.msg = MissingReason[RequiredOrder[j]]

\* C17 witness: validate_event has returned on an event whose latitude is
\* out of range and whose precision level is not one of the fifteen, and
\* the reason is the one of the latitude.
C17_Witness ==
    /\ ValidatorReturned
    /\ event = Put(Put(BaseEvent, "latitude", PyInt(91)),
                   "precision_level", PyStr("fortnight"))
    /\ ~result.success
    /\ result.msg = <<"latitude must be between -90 and 90">>

\* The source is a record with a non-empty url or a non-empty title.
HasUrlOrTitle(source) ==
    /\ source.isdict
    /\ \/ Truthy(Get(source, "url", None))
       \/ Truthy(Get(source, "title", None))

\* C18: every source validate_event has let through (each element of the
\* sources list of an accepted event went through validate_source) is a
\* record in which url or title is non-empty; a source whose url and title
\* are both absent, None or empty is never accepted.
C18_AcceptedSourceHasUrlOrTitle ==
    (/\ ValidatorReturned
     /\ result.success
     /\ event.sources.present
     /\ event.sources.islist)
    => \A j \in 1..Len(event.sources.items) : HasUrlOrTitle(event.sources.items[j])

(***************************************************************************)
(* _get_fallback_image on its own: one call on one category, with one of   *)
(* the icon maps _load_category_icons can build.                           *)
(***************************************************************************)
\* _load_category_icons, lines 143-147: the file <name>.svg of the icon
\* directory gives the entry name -> /images/categories/<name>.svg.
IconPath ==
    ("science" :> "/images/categories/science.svg")
    @@ ("history" :> "/images/categories/history.svg")
    @@ ("science.physics" :> "/images/categories/science.physics.svg")
    @@ ("history.ancient" :> "/images/categories/history.ancient.svg")
    @@ ("art.painting" :> "/images/categories/art.painting.svg")

\* One icon map for each set of files the directory may hold.
AllIconMaps == {[c \in names |-> IconPath[c]] : names \in SUBSET DOMAIN IconPath}

\* The categories _get_fallback_image is called on.
FallbackCategories ==
    {None, PyStr(""), PyStr("science"), PyStr("art"), PyStr("ghost"),
     PyStr("history.ancient"), PyStr("art.painting"), PyStr("science.physics"),
     PyStr("science.physics.quantum")}

CallGetFallbackImage ==
    /\ pc = "call _get_fallback_image"
    /\ result' = _get_fallback_image(loc.category)
    /\ pc' = "_get_fallback_image returned"
    /\ UNCHANGED <<dry_run, conn, exception, category_icons, csv, at_call, stats, committed, pending, in_txn,
                   n_events, i, calls, event, loc>>

InitF ==
    /\ dry_run = FALSE
    /\ conn = "None"
    /\ exception = <<>>
    /\ category_icons \in AllIconMaps
    /\ stats = NoStats
    /\ committed = NoRows
    /\ pending = NoRows
    /\ in_txn = FALSE
    /\ n_events = 0
    /\ i = 0
    /\ calls = <<>>
    /\ event = NoEvent
    /\ loc \in {[NoLocals EXCEPT !.category = c] : c \in FallbackCategories}
    /\ result = NoResult
    /\ at_call = NoCall
    /\ csv = NoCsv
    /\ pc = "call _get_fallback_image"

NextF == CallGetFallbackImage

SpecF == InitF /\ [][NextF]_vars

\* The part of a dotted identifier before its first '.'.
ParentOf ==
    ("history.ancient" :> "history") @@ ("art.painting" :> "art")
    @@ ("science.physics" :> "science") @@ ("science.physics.quantum" :> "science")

\* C19: for every category and every icon map, _get_fallback_image returns
\* None for a None or empty category; otherwise the placeholder of exactly
\* that identifier when the map has one; otherwise, for a dotted
\* identifier, the placeholder of its parent (the part before the first
\* '.') when the map has one; otherwise None.  The call leaves the
\* counters and the store as they were.
C19_FallbackLookup ==
    pc = "_get_fallback_image returned" =>
        LET c == loc.category
        IN /\ result =
                IF c = None \/ c = PyStr("") THEN None
                ELSE IF c.s \in DOMAIN category_icons
                THEN PyStr(IconPath[c.s])
                ELSE IF c.s \in DOMAIN ParentOf /\ ParentOf[c.s] \in DOMAIN category_icons
                THEN PyStr(IconPath[ParentOf[c.s]])
                ELSE None
           /\ stats = NoStats
           /\ committed = NoRows
           /\ pending = NoRows

\* C19 witness: with placeholders for both 'history' and 'history.ancient'
\* in the map, the call on 'history.ancient' has returned the placeholder
\* of 'history.ancient'.
C19_Witness ==
    /\ pc = "_get_fallback_image returned"
    /\ loc.category = PyStr("history.ancient")
    /\ {"history", "history.ancient"} \subseteq DOMAIN category_icons
    /\ result = PyStr("/images/categories/history.ancient.svg")

(***************************************************************************)
(* Properties of the two enumerations.                                     *)
(***************************************************************************)
\* v is one of the texts of list.
OneOf(v, list) == v.t = "str" /\ v.s \in list

\* The event carries a precision_level that is not one of the fifteen, or
\* a source whose source_type is not one of the eight.
OutOfEnumeration(e) ==
    /\ e.isdict
    /\ \/ Has(e, "precision_level") /\ ~OneOf(e.f["precision_level"], PRECISION_LEVELS)
       \/ /\ e.sources.present
          /\ e.sources.islist
          /\ \E j \in 1..Len(e.sources.items) :
               /\ e.sources.items[j].isdict
               /\ Has(e.sources.items[j], "source_type")
               /\ ~OneOf(e.sources.items[j].f["source_type"], VALID_SOURCE_TYPES)

\* C20: there are fifteen precision levels and eight source types; every
\* committed event row has one of the fifteen as precision_level and every
\* committed source row one of the eight as source_type.  When a call has
\* returned success, its event row has the precision_level the event was
\* handed over with and its j-th source row the source_type of the j-th
\* source, 'other' when that source has none.  A call on an event carrying
\* a value outside the enumerations returns failure and commits no row.
C20_EnumerationsClosed ==
    /\ Cardinality(PRECISION_LEVELS) = 15
    /\ Cardinality(VALID_SOURCE_TYPES) = 8
    /\ \A r \in committed.events : OneOf(r.precision_level, PRECISION_LEVELS)
    /\ \A r \in committed.sources : OneOf(r.source_type, VALID_SOURCE_TYPES)
    /\ Persisted =>
         /\ \E r \in committed.events :
              /\ r.id = result.event_id
              /\ r.precision_level = at_call.event.f["precision_level"]
         /\ \A j \in 1..Len(at_call.event.sources.items) :
              \E r \in committed.sources :
                 /\ r.id = Uuid(Len(calls), j)
                 /\ r.event_id = result.event_id
                 /\ r.source_type =
                      IF Has(at_call.event.sources.items[j], "source_type")
                      THEN at_call.event.sources.items[j].f["source_type"]
                      ELSE PyStr("other")
    /\ (Returned /\ OutOfEnumeration(at_call.event)) =>
         /\ ~result.success
         /\ RowsOfCall(committed, Len(calls)) = {}

\* C20 witness: after a call on an event with the precision level
\* 'fortnight' was turned away, an event with a 'book' source and a source
\* without source_type has been committed, the second source row being of
\* type 'other'.
C20_Witness ==
    /\ Persisted
    /\ OutOfEnumeration(Put(BaseEvent, "precision_level", PyStr("fortnight")))
    /\ at_call.stats.events_skipped = 1
    /\ at_call.result.msg = <<"Event validation failed: ", "Invalid precision_level: ",
                              "fortnight">>
    /\ at_call.event = BaseEvent
    /\ \E r \in committed.sources :
         r.id = Uuid(Len(calls), 1) /\ r.source_type = PyStr("book")
    /\ \E r \in committed.sources :
         r.id = Uuid(Len(calls), 2) /\ r.source_type = PyStr("other")

(***************************************************************************)
(* Properties of the counters and of the error list.                       *)
(***************************************************************************)
\* The last call returned through the handler of psycopg2.Error.
EndedInDatabaseError ==
    /\ Returned
    /\ Len(result.msg) = 2
    /\ result.msg[1] = "Database error: "

\* The last call was left by an exception after a call on the connection
\* raised psycopg2.Error: by the exception of rollback() in the handler, or
\* by the UnboundLocalError of the finally clause when self.conn.cursor()
\* raised (on an ingester that has a connection).
PersistenceErrorEscaped ==
    /\ pc = "raised"
    /\ Len(calls) > 0
    /\ Len(exception) = 2
    /\ \/ exception[1] = "psycopg2.InterfaceError"
       \/ exception[1] = "UnboundLocalError" /\ conn /= "None"

\* C21 (as claimed): when a call has ended in a persistence error,
\* events_skipped is exactly one more than when the call was made and
\* stats['errors'] is the list it was when the call was made with exactly
\* one message added at its end, a 'Database error: ' message; so the
\* entries before it are kept, in their order.
C21_ErrorRecordedInOrder ==
    (EndedInDatabaseError \/ PersistenceErrorEscaped) =>
        /\ stats.events_skipped = at_call.stats.events_skipped + 1
        /\ Len(stats.errors) = Len(at_call.stats.errors) + 1
        /\ SubSeq(stats.errors, 1, Len(at_call.stats.errors)) = at_call.stats.errors
        /\ stats.errors[Len(stats.errors)][1] = "Database error: "

\* C22: with dry_run set, whatever the events and whether or not the
\* ingester has a connection, the store is never touched (no row written
\* or committed, no transaction, no statement of the call reached, so no
\* connection is used and no exception leaves a call), events_created and
\* sources_created stay 0 and ingest_batch records no error; a call on an
\* event that passes
\* validate_event returns success with a new identifier and leaves the
\* counters alone, and a call on an event that fails it returns failure
\* with no identifier and adds exactly 1 to events_skipped.
C22_DryRunWritesNothing ==
    dry_run =>
        /\ committed = NoRows
        /\ pending = NoRows
        /\ ~in_txn
        /\ pc \notin {"prepare", "insert_event", "sources", "commit"}
        /\ ~(pc = "raised" /\ Len(calls) > 0)
        /\ stats.events_created = 0
        /\ stats.sources_created = 0
        /\ pc /= "loader returned" => stats.errors = <<>>
        /\ Returned =>
             IF validate_event(at_call.event).ok
             THEN /\ result.success
                  /\ result.event_id = Uuid(Len(calls), 0)
                  /\ result.event_id /= at_call.result.event_id
                  /\ stats = at_call.stats
             ELSE /\ ~result.success
                  /\ result.event_id = None
                  /\ stats = [at_call.stats EXCEPT !.events_skipped = @ + 1]

\* C22 witness: a dry run on an ingester that has no connection has taken
\* two events, the first failing validation and the second passing it; the
\* second call returned success with an identifier and the store is empty.
C22_Witness ==
    /\ dry_run
    /\ conn = "None"
    /\ Returned
    /\ Len(calls) = 2
    /\ ~at_call.result.success
    /\ at_call.event = BaseEvent
    /\ result = Return(TRUE, <<"Dry run - not written to database">>, Uuid(2, 0))
    /\ stats.events_skipped = 1
    /\ committed = NoRows

(***************************************************************************)
(* ingest_from_csv_file, lines 564-628: the rows of the file are read one  *)
(* by one into events_dict, then the events are handed to ingest_batch.    *)
(* A row is what csv.DictReader gives for a line under the documented      *)
(* header: a text for each of the first `cols` columns the line has, and   *)
(* None for the columns it lacks.                                          *)
(***************************************************************************)
\* Longest file read, in rows.
MaxRows == 3

\* s.strip() for the texts of the model that begin or end with a blank;
\* every other text of the model is its own strip().
StripTable == (" Moon landing " :> "Moon landing") @@ ("  " :> "") @@ ("B " :> "B")
              @@ (" science" :> "science")
Strip(s) == IF s \in DOMAIN StripTable THEN StripTable[s] ELSE s

\* s or None
OrNone(s) == IF s = "" THEN None ELSE PyStr(s)

BaseRow ==
    [title |-> "Moon landing", unix_seconds |-> "-5", precision_level |-> "day",
     description |-> "First crewed landing", category |-> "science",
     importance_score |-> "50", image_url |-> "", uncertainty_range |-> "",
     source_url |-> "http://a", source_title |-> "A", source_type |-> "book",
     source_citation |-> "", credibility_score |-> "45", cols |-> 13]

\* The columns of the documented header, in order.
Columns ==
    <<"title", "unix_seconds", "precision_level", "description", "category",
      "importance_score", "image_url", "uncertainty_range", "source_url",
      "source_title", "source_type", "source_citation", "credibility_score">>

\* row.get(column, default) is None: the line ends before the column.
IsNone(row, column) ==
    \A k \in 1..Len(Columns) : Columns[k] = column => k > row.cols

\* The rows a file is made of.
CsvRowPool ==
    {BaseRow,
     [BaseRow EXCEPT !.title = " Moon landing ", !.unix_seconds = "0",
                     !.category = " science", !.description = "",
                     !.source_url = "", !.source_title = "B ",
                     !.source_type = "other"],
     [BaseRow EXCEPT !.source_url = "  ", !.source_title = "",
                     !.precision_level = "year"],
     [BaseRow EXCEPT !.title = "  "],
     [BaseRow EXCEPT !.title = "Sputnik", !.unix_seconds = "200",
                     !.category = "art", !.source_url = "http://b",
                     !.source_title = ""],
     [BaseRow EXCEPT !.title = "Sputnik", !.importance_score = "101",
                     !.source_url = "", !.source_title = ""],
     \* the line 'Sputnik,200,day'
     [BaseRow EXCEPT !.title = "Sputnik", !.unix_seconds = "200", !.cols = 3],
     \* a line that ends after source_title
     [BaseRow EXCEPT !.cols = 10],
     \* a line that lacks credibility_score only
     [BaseRow EXCEPT !.cols = 12]}

\* Lines 593-603: the event made of the first row of a title.
EventOfRow(title, row) ==
    [isdict |-> TRUE,
     f |-> ("title" :> PyStr(title))
           @@ ("unix_seconds" :> PyStr(row.unix_seconds))
           @@ ("precision_level" :> PyStr(row.precision_level))
           @@ ("description" :> OrNone(Strip(row.description)))
           @@ ("category" :> OrNone(Strip(row.category)))
           @@ ("importance_score" :> PyStr(row.importance_score))
           @@ ("image_url" :> OrNone(Strip(row.image_url)))
           @@ ("uncertainty_range" :> OrNone(Strip(row.uncertainty_range))),
     sources |-> SourceList(<<>>)]

\* Line 607: the row carries a source.
RowHasSource(row) == Strip(row.source_url) /= "" \/ Strip(row.source_title) /= ""

\* Lines 608-614: the source made of a row.
SourceOfRow(row) ==
    Dict(("url" :> OrNone(Strip(row.source_url)))
         @@ ("title" :> OrNone(Strip(row.source_title)))
         @@ ("source_type" :> PyStr(Strip(row.source_type)))
         @@ ("citation" :> OrNone(Strip(row.source_citation)))
         @@ ("credibility_score" :> IF IsNone(row, "credibility_score") THEN None
                                    ELSE PyStr(row.credibility_score)))

\* The position in events_dict of the event of a title, 0 when it has none.
IndexOfTitle(events, title) ==
    IF \E k \in 1..Len(events) : events[k].f["title"].s = title
    THEN CHOOSE k \in 1..Len(events) : events[k].f["title"].s = title
    ELSE 0

\* A loop body that lets a later row of a title replace the event of the
\* title, keeping its sources.
FoldRowLastWins(events, row) ==
    LET title == Strip(row.title)
        known == IndexOfTitle(events, title)
        evs == IF known = 0 THEN Append(events, EventOfRow(title, row))
               ELSE [events EXCEPT ![known] =
                        WithSources(EventOfRow(title, row), events[known].sources)]
        k == IndexOfTitle(evs, title)
    IN IF title = "" THEN events
       ELSE IF RowHasSource(row)
       THEN [evs EXCEPT ![k].sources.items = Append(@, SourceOfRow(row))]
       ELSE evs

\* Lines 586-615, the body of `for row in reader`: events_dict (its values
\* in insertion order) after the row.
FoldRow(events, row) ==
    LET title == Strip(row.title)
        evs == IF IndexOfTitle(events, title) = 0
               THEN Append(events, EventOfRow(title, row))
               ELSE events
        k == IndexOfTitle(evs, title)
    IN IF title = "" THEN events
       ELSE IF RowHasSource(row)
       THEN [evs EXCEPT ![k].sources.items = Append(@, SourceOfRow(row))]
       ELSE evs

\* The body of the loop calls .strip() on None (AttributeError): on one of
\* description, category, image_url and uncertainty_range when the row
\* begins an event (lines 597-601), on source_url or, when that is empty,
\* source_title in the test of line 607, and on source_title, source_type
\* and source_citation when the row carries a source (lines 609-612).
StripRaises(events, row) ==
    LET title == Strip(row.title)
    IN /\ title /= ""
       /\ \/ IndexOfTitle(events, title) = 0 /\ IsNone(row, "uncertainty_range")
          \/ IsNone(row, "source_url")
          \/ Strip(row.source_url) = "" /\ IsNone(row, "source_title")
          \/ IsNone(row, "source_citation")
                /\ (Strip(row.source_url) /= "" \/ Strip(row.source_title) /= "")

\* Lines 621-628: the handlers of ingest_from_csv_file append the message
\* to stats['errors'] and return self.stats; events_dict is dropped and
\* ingest_batch is not called.
CsvError(msg) ==
    /\ stats' = [stats EXCEPT !.errors = Append(@, msg)]
    /\ pc' = "loader returned"

\* What open(file_path) of line 582 may meet.
CsvFiles == {"missing", "directory", "file"}

\* ingest_from_csv_file, lines 579-583: events_dict = {} and the file is
\* opened.
ingest_from_csv_file ==
    /\ pc = "new"
    /\ \E file \in CsvFiles :
         IF file = "missing"
         THEN CsvError(<<"File not found: ", "events.csv">>)
         ELSE IF file = "directory"
         THEN CsvError(<<"[Errno 21] Is a directory: ", "'events.csv'">>)
         ELSE pc' = "csv" /\ UNCHANGED stats
    /\ UNCHANGED <<dry_run, conn, exception, category_icons, csv, at_call, committed,
                   pending, in_txn, n_events, i, calls, event, loc, result>>

\* for row in reader: one more row of the file, or bytes that are not
\* UTF-8 (UnicodeDecodeError, taken by `except Exception`).
CsvRow ==
    /\ pc = "csv"
    /\ Len(csv.rows) < MaxRows
    /\ \/ \E row \in CsvRowPool :
            IF StripRaises(csv.events, row)
            THEN /\ csv' = [rows |-> Append(csv.rows, row), events |-> <<>>]
                 /\ CsvError(<<"'NoneType' object has no attribute 'strip'">>)
            ELSE /\ csv' = [rows |-> Append(csv.rows, row),
                            events |-> FoldRow(csv.events, row)]
                 /\ UNCHANGED <<stats, pc>>
       \/ /\ csv' = [csv EXCEPT !.events = <<>>]
          /\ CsvError(<<"'utf-8' codec can't decode byte 0xff in position 0: ",
                        "invalid start byte">>)
    /\ UNCHANGED <<dry_run, conn, exception, category_icons, at_call, committed, pending,
                   in_txn, n_events, i, calls, event, loc, result>>

\* Lines 617-619, at the end of the file: events = list(events_dict.values())
\* and the call of ingest_batch(events, user_id).
CsvIngestBatch ==
    /\ pc = "csv"
    /\ n_events' = Len(csv.events)
    /\ i' = 0
    /\ pc' = "batch"
    /\ UNCHANGED <<dry_run, conn, exception, category_icons, csv, at_call, stats, committed, pending,
                   in_txn, calls, event, loc, result>>

\* The loop of ingest_batch over the events of the file.
BatchNextCsv ==
    /\ pc = "batch"
    /\ i < n_events
    /\ event' = csv.events[i + 1]
    /\ at_call' = [event |-> csv.events[i + 1], stats |-> stats, result |-> result,
                   same_dict |-> FALSE, db_errors |-> DatabaseErrorsSoFar]
    /\ i' = i + 1
    /\ calls' = Append(calls, i + 1)
    /\ pc' = "validate"
    /\ UNCHANGED <<dry_run, conn, exception, category_icons, csv, stats, committed, pending, in_txn,
                   n_events, loc, result>>

\* __init__: a new ingester that writes to the store, not connected yet,
\* and a file of 0..MaxRows rows for ingest_from_csv_file.
InitC ==
    /\ dry_run = FALSE
    /\ conn = "None"
    /\ exception = <<>>
    /\ category_icons \in IconMaps
    /\ stats = NoStats
    /\ committed = NoRows
    /\ pending = NoRows
    /\ in_txn = FALSE
    /\ n_events = 0
    /\ i = 0
    /\ calls = <<>>
    /\ event = NoEvent
    /\ loc = NoLocals
    /\ result = NoResult
    /\ at_call = NoCall
    /\ csv = NoCsv
    /\ pc = "new"

\* The events of the reader hold no latitude, so validate_event turns each
\* of them away (lines 208-210) and the call never goes past Validate: no
\* exception leaves ingest_batch for `except Exception` (line 625) to take.
NextC ==
    \/ connect
    \/ ingest_from_csv_file
    \/ CsvRow
    \/ CsvIngestBatch
    \/ BatchNextCsv
    \/ Validate
    \/ BatchReturn
    \/ disconnect

SpecC == InitC /\ [][NextC]_vars

(***************************************************************************)
(* Properties of ingest_from_csv_file.                                     *)
(***************************************************************************)
\* The rows of the file whose stripped title is t, and those of them that
\* carry a source (a non-empty source_url or source_title).
RowsOfTitle(rows, t) == {j \in 1..Len(rows) : Strip(rows[j].title) = t}
SourceRowsOfTitle(rows, t) ==
    {j \in RowsOfTitle(rows, t) :
       Strip(rows[j].source_url) /= "" \/ Strip(rows[j].source_title) /= ""}

\* The distinct non-empty titles of the file.
TitlesOf(rows) == {Strip(rows[j].title) : j \in 1..Len(rows)} \ {""}

\* C23: at every point of the reading of a file that no handler of
\* ingest_from_csv_file has ended (so at its end, when the events are
\* handed to ingest_batch, and for each event handed on to
\* ingest_event_with_sources), events_dict holds exactly one event per
\* distinct non-empty stripped title of the rows read, in the order in
\* which the titles first appear; the fields of each event are those of
\* the first row of its title; and its sources are, in row order, one
\* source for each row of the title that has a non-empty source_url or
\* source_title.  Rows with an empty title add nothing.
C23_RowsFoldedByTitle ==
    LET rows == csv.rows
        events == csv.events
        TitleAt(k) == events[k].f["title"].s
    IN pc /= "loader returned" =>
       /\ Len(events) = Cardinality(TitlesOf(rows))
       /\ {TitleAt(k) : k \in 1..Len(events)} = TitlesOf(rows)
       /\ \A k \in 1..Len(events) : \A l \in 1..Len(events) :
            k < l => Least(RowsOfTitle(rows, TitleAt(k))) < Least(RowsOfTitle(rows, TitleAt(l)))
       /\ \A k \in 1..Len(events) :
            LET first == rows[Least(RowsOfTitle(rows, TitleAt(k)))]
                with == SourceRowsOfTitle(rows, TitleAt(k))
                items == events[k].sources.items
            IN /\ events[k].f["unix_seconds"] = PyStr(first.unix_seconds)
               /\ events[k].f["precision_level"] = PyStr(first.precision_level)
               /\ events[k].f["importance_score"] = PyStr(first.importance_score)
               /\ events[k].f["category"] = OrNone(Strip(first.category))
               /\ events[k].f["description"] = OrNone(Strip(first.description))
               /\ events[k].f["image_url"] = OrNone(Strip(first.image_url))
               /\ events[k].sources.present /\ events[k].sources.islist
               /\ Len(items) = Cardinality(with)
               /\ \A j \in with :
                    LET m == Cardinality({x \in with : x <= j})
                    IN /\ items[m].f["url"] = OrNone(Strip(rows[j].source_url))
                       /\ items[m].f["title"] = OrNone(Strip(rows[j].source_title))
                       /\ items[m].f["source_type"] = PyStr(Strip(rows[j].source_type))
       /\ pc = "batch" => n_events = Len(events)
       /\ pc = "validate" => event = events[i]

\* C23 witness: a file of three rows, the first and third titled 'Moon
\* landing' (the third with blanks around the title and other values) and
\* the second titled 'Sputnik', has been folded into two events, 'Moon
\* landing' first with two sources and the values of the first row, and
\* the second of them handed to ingest_event_with_sources.
C23_Witness ==
    /\ pc = "validate"
    /\ i = 2
    /\ Len(csv.rows) = 3
    /\ csv.rows[1] = BaseRow
    /\ csv.rows[2].title = "Sputnik"
    /\ csv.rows[3].title = " Moon landing "
    /\ Len(csv.events) = 2
    /\ csv.events[1].f["unix_seconds"] = PyStr("-5")
    /\ Len(csv.events[1].sources.items) = 2
    /\ csv.events[1].sources.items[2].f["title"] = PyStr("B")
    /\ event.f["title"] = PyStr("Sputnik")

\* The row has a text of the right kind in every column, and a registered
\* category.
WellFormedRow(row) ==
    /\ row.cols = Len(Columns)
    /\ Strip(row.title) /= ""
    /\ row.unix_seconds \in DOMAIN IntLiterals
    /\ row.precision_level \in PRECISION_LEVELS
    /\ Strip(row.category) \in CategoryTable
    /\ row.importance_score \in DOMAIN IntLiterals
    /\ IntLiterals[row.importance_score] \in 0..100
    /\ Strip(row.source_type) \in VALID_SOURCE_TYPES
    /\ row.credibility_score \in DOMAIN IntLiterals
    /\ IntLiterals[row.credibility_score] \in 0..100

\* C24: when ingest_from_csv_file has returned, on an ingester that was
\* connected, on a file whose rows are all well formed (full lines), with
\* registered categories, and the store raised no error,
\* events_created is the number of distinct titles of the file and
\* events_skipped is 0.
C24_CsvEventsCreated ==
    (/\ pc = "returned"
     /\ conn /= "None"
     /\ \A j \in 1..Len(csv.rows) : WellFormedRow(csv.rows[j])
     /\ stats.errors = <<>>)
    => /\ stats.events_created = Cardinality(TitlesOf(csv.rows))
       /\ stats.events_skipped = 0

\* C25: after every completed call of ingest_event_with_sources on an
\* ingester that writes to the store, events_created + events_skipped is
\* the number of calls made so far.
C25_CreatedPlusSkippedIsCalls ==
    (Returned /\ ~dry_run) =>
        stats.events_created + stats.events_skipped = Len(calls)

\* C26: when a call of ingest_event_with_sources has returned, the record
\* it was handed has the keys and values it had when the call was made.
C26_EventRecordUnchanged ==
    Returned => event = at_call.event

\* The placeholders of the icon map, as image_url values.
Placeholders == {PyStr(category_icons[c]) : c \in DOMAIN category_icons}

\* C27: between the calls of an ingester that writes to the store,
\* image_urls_replaced is the number of committed event rows whose
\* image_url is a placeholder given by _get_fallback_image (no event of the
\* model supplies a placeholder path as its own image_url).
C27_ReplacedCountsCommittedFallbacks ==
    (BetweenCalls /\ ~dry_run) =>
        stats.image_urls_replaced =
            Cardinality({r \in committed.events : r.image_url \in Placeholders})

\* C28: between the calls of ingest_event_with_sources, and when the run
\* has ended, the connection has no transaction open.
C28_NoTransactionLeftOpen ==
    BetweenCalls => ~in_txn

\* The events of the run so far whose ingestion ended in a persistence
\* error.
PersistenceFailures ==
    DatabaseErrorsSoFar + (IF PersistenceErrorEscaped THEN 1 ELSE 0)

\* C29 (as claimed): when a run of ingest_batch has ended (it returned, or
\* an exception left it), stats['errors'] has one entry for each event of
\* the run whose ingestion ended in a persistence error; a call turned
\* away by validate_event or for an unknown category leaves the list as it
\* was at the call.
C29_ErrorsCountPersistenceFailures ==
    /\ (pc = "returned" \/ (pc = "raised" /\ Len(calls) > 0)) =>
         Len(stats.errors) = PersistenceFailures
    /\ (Returned /\ ~result.success /\ ~DatabaseErrorResult(result)) =>
         stats.errors = at_call.stats.errors

\* The identifiers a.b.c of FallbackCategories, with their first segment a
\* and their immediate parent a.b.
ThreeSegments ==
    ("science.physics.quantum" :> [first |-> "science", parent |-> "science.physics"])

\* C30: for an identifier a.b.c with no placeholder of its own,
\* _get_fallback_image returns the placeholder of a when the map has one
\* and None otherwise, whether or not the map has one for a.b; it never
\* returns the placeholder of a.b.
C30_FirstSegmentOnly ==
    (/\ pc = "_get_fallback_image returned"
     /\ loc.category.s \in DOMAIN ThreeSegments
     /\ loc.category.s \notin DOMAIN category_icons)
    => LET a == ThreeSegments[loc.category.s].first
           ab == ThreeSegments[loc.category.s].parent
       IN /\ result = IF a \in DOMAIN category_icons THEN PyStr(IconPath[a]) ELSE None
          /\ result /= PyStr(IconPath[ab])

\* C30 witness: with placeholders for 'science.physics' only, the call on
\* 'science.physics.quantum' has returned None.
C30_Witness ==
    /\ pc = "_get_fallback_image returned"
    /\ loc.category = PyStr("science.physics.quantum")
    /\ DOMAIN category_icons = {"science.physics"}
    /\ result = None

====
